---- MODULE Spec2Model ----
(***************************************************************************)
(* Email_Selection: the stratified sampler of select_350_emails.py, the    *)
(* cleaning pipeline of clean_emails.py and the header parser of           *)
(* prepare_data.py.                                                        *)
(*                                                                         *)
(* Texts are sequences of one-character strings; "\n" is the newline.      *)
(***************************************************************************)
EXTENDS Integers, Sequences, FiniteSets, TLC

VARIABLES
    \* ---- select_350_emails.py ----
    emails,                 \* filtered_2025, the list main() splits by category
    pc,                     \* position of the selection run
    run,                    \* 1 = first run of main(), 2 = second run with the same seed
    category,               \* which select_emails_with_global_cap call is active
    bidx,                   \* index of the bucket in targets.items()
    target_count,           \* parameter of sample_with_global_sender_cap
    shuffled,               \* local of sample_with_global_sender_cap
    pos,                    \* position of the for loop in shuffled
    sampled,                \* local "selected" of sample_with_global_sender_cap
    selected,               \* local "selected" of select_emails_with_global_cap
    shortfall,              \* local of select_emails_with_global_cap
    picked,                 \* number of records of "selected" that are per-bucket picks
    additional,             \* local "additional" of select_emails_with_global_cap
    global_sender_counts,   \* defaultdict(int) of main()
    selected_work,          \* main(): result of the work call
    all_selected,           \* main(): selected_work + selected_personal
    first_selected,         \* all_selected of run 1, kept to compare with run 2
    tape,                   \* the stream of random draws the seed determines
    rpos,                   \* how many draws of the stream are consumed
    \* ---- get_message_bucket applied to one record ----
    b_email,                \* the record
    b_result,               \* the bucket returned, "none" before the call
    \* ---- prepare_data.py, header parsing of one row ----
    full_content,           \* content_map.get(thread_id, "")
    email_preview,          \* row.get("email_preview", "")
    m_pc,                   \* "start", "scan" inside the for loop, "done" after it
    m_lines,                \* content_for_parsing.split("\n")[:20]
    m_idx,                  \* index of the line the loop is at
    from_line,
    to_line,
    subject_line,
    time_line,
    \* ---- clean_emails.py, clean_email_content on one body ----
    clean_raw,              \* the body before any cleaning
    clean_content,          \* content, parameter of the running clean_email_content call
    clean_text,             \* text, local of clean_email_content
    clean_prev,             \* the value of text before the last stage
    stage,                  \* number of stages applied in the running call
    pass                    \* 1 = first call, 2 = call on the result of the first

selVars == <<emails, pc, run, category, bidx, target_count, shuffled, pos,
             sampled, selected, shortfall, picked, additional,
             global_sender_counts, selected_work, all_selected,
             first_selected, tape, rpos>>

bktVars == <<b_email, b_result>>

mrgVars == <<full_content, email_preview, m_pc, m_lines, m_idx, from_line, to_line,
             subject_line, time_line>>

clnVars == <<clean_raw, clean_content, clean_text, clean_prev, stage, pass>>

vars == <<selVars, bktVars, mrgVars, clnVars>>

notSelVars == <<bktVars, mrgVars, clnVars>>
notBktVars == <<selVars, mrgVars, clnVars>>
notMrgVars == <<selVars, bktVars, clnVars>>
notClnVars == <<selVars, bktVars, mrgVars>>

(***************************************************************************)
(* Bounds                                                                  *)
(***************************************************************************)
NumEmails == 3
MaxBucketLines == 4
MaxHeaderLines == 3
MaxCleanLines == 4
MaxScenarioLines == 3

(***************************************************************************)
(* Characters                                                              *)
(***************************************************************************)
UpperCase == <<"A","B","C","D","E","F","G","H","I","J","K","L","M",
               "N","O","P","Q","R","S","T","U","V","W","X","Y","Z">>
LowerCase == <<"a","b","c","d","e","f","g","h","i","j","k","l","m",
               "n","o","p","q","r","s","t","u","v","w","x","y","z">>
Digits == {"0","1","2","3","4","5","6","7","8","9"}

Range(s) == {s[i] : i \in DOMAIN s}

IsDigit(c) == c \in Digits

\* str.lower() on one character
ToLower ==
    [c \in Range(UpperCase) |->
        LowerCase[CHOOSE i \in DOMAIN UpperCase : UpperCase[i] = c]]

LowerCh(c) == IF c \in DOMAIN ToLower THEN ToLower[c] ELSE c

lower(t) == [i \in DOMAIN t |-> LowerCh(t[i])]

\* the character class [\w\.-]
AddrChars ==
    Range(UpperCase) \cup Range(LowerCase) \cup Digits \cup {"_", ".", "-"}

IsAddrCh(c) == c \in AddrChars

HasPrefixAt(t, i, p) ==
    /\ i >= 1
    /\ i + Len(p) - 1 <= Len(t)
    /\ SubSeq(t, i, i + Len(p) - 1) = p

\* ^ under re.MULTILINE
AtLineStart(t, i) == i = 1 \/ (i > 1 /\ i - 1 <= Len(t) /\ t[i-1] = "\n")

MessageWord == <<"M","e","s","s","a","g","e">>

\* r'^Message \d+' matches at position i
HeaderAt(t, i) ==
    /\ AtLineStart(t, i)
    /\ HasPrefixAt(t, i, MessageWord \o <<" ">>)
    /\ i + 8 <= Len(t)
    /\ IsDigit(t[i + 8])

(***************************************************************************)
(* str methods                                                             *)
(***************************************************************************)
\* the characters str.strip removes and \s matches
SpaceChars == {" ", "\t", "\n", "\r", "\f"}

IsSpace(c) == c \in SpaceChars

RECURSIVE lstrip(_)
lstrip(t) == IF t # <<>> /\ IsSpace(Head(t)) THEN lstrip(Tail(t)) ELSE t

RECURSIVE rstrip(_)
rstrip(t) ==
    IF t # <<>> /\ IsSpace(t[Len(t)]) THEN rstrip(SubSeq(t, 1, Len(t) - 1)) ELSE t

strip(t) == rstrip(lstrip(t))

startswith(t, p) == HasPrefixAt(t, 1, p)

Contains(t, p) == \E i \in 1..(Len(t) - Len(p) + 1) : HasPrefixAt(t, i, p)

\* the pieces between the leftmost non-overlapping occurrences of sep
RECURSIVE SplitFrom(_, _, _)
SplitFrom(t, sep, start) ==
    LET hits == {p \in start..(Len(t) - Len(sep) + 1) : HasPrefixAt(t, p, sep)}
    IN  IF hits = {} THEN <<SubSeq(t, start, Len(t))>>
        ELSE LET p == CHOOSE h \in hits : \A g \in hits : h <= g
             IN  <<SubSeq(t, start, p - 1)>> \o SplitFrom(t, sep, p + Len(sep))

\* t.split(sep)
split(t, sep) == SplitFrom(t, sep, 1)

\* sep.join(parts)
RECURSIVE join(_, _)
join(sep, parts) ==
    IF parts = <<>> THEN <<>>
    ELSE IF Len(parts) = 1 THEN parts[1]
    ELSE parts[1] \o sep \o join(sep, Tail(parts))

\* t.replace(old, new)
replace(t, old, new) == join(new, split(t, old))

\* every sequence of at most max lines taken from kinds, joined by newlines
TextsOf(kinds, max) ==
    {join(<<"\n">>, [i \in DOMAIN f |-> kinds[f[i]]]) :
        f \in UNION {[1..m -> DOMAIN kinds] : m \in 0..max}}

(***************************************************************************)
(* select_350_emails.py: configuration                                     *)
(***************************************************************************)
BucketOrder == <<"1-msg", "2-msg", "3+msg">>

\* 100 / 60 / 40 in the source, scaled
WORK_TARGETS == [b \in Range(BucketOrder) |->
                   IF b = "1-msg" THEN 2 ELSE 1]

\* 75 / 45 / 30 in the source, scaled
PERSONAL_TARGETS == [b \in Range(BucketOrder) |-> 1]

\* 10 in the source, scaled
MAX_PER_SENDER == 2

Targets(cat) == IF cat = "work" THEN WORK_TARGETS ELSE PERSONAL_TARGETS

(***************************************************************************)
(* select_350_emails.py: derived keys                                      *)
(***************************************************************************)
count_messages(email) ==
    LET content == IF "full_content" \in DOMAIN email
                   THEN email.full_content ELSE <<>>
    IN  Cardinality({i \in 1..Len(content) : HeaderAt(content, i)})

\* variant: only a count of exactly 3 is a 3+msg thread
get_message_bucketExactlyThree(email) ==
    LET msg_count == count_messages(email) IN
    IF msg_count = 1 THEN "1-msg"
    ELSE IF msg_count = 2 THEN "2-msg"
    ELSE IF msg_count = 3 THEN "3+msg"
    ELSE "1-msg"

get_message_bucket(email) ==
    LET msg_count == count_messages(email) IN
    IF msg_count = 1 THEN "1-msg"
    ELSE IF msg_count = 2 THEN "2-msg"
    ELSE IF msg_count >= 3 THEN "3+msg"
    ELSE "1-msg"

\* last index of the maximal run of [\w\.-] characters starting at i (i-1 if none)
RECURSIVE AddrRunEnd(_, _)
AddrRunEnd(t, i) ==
    IF i <= Len(t) /\ IsAddrCh(t[i]) THEN AddrRunEnd(t, i + 1) ELSE i - 1

\* r'[\w\.-]+@[\w\.-]+' matches starting at p
AddrMatchAt(t, p) ==
    LET q == AddrRunEnd(t, p) + 1 IN
    /\ q > p
    /\ q <= Len(t)
    /\ t[q] = "@"
    /\ AddrRunEnd(t, q + 1) >= q + 1

extract_sender(email) ==
    LET from_field == lower(IF "from" \in DOMAIN email THEN email.from ELSE <<>>)
        starts == {p \in 1..Len(from_field) : AddrMatchAt(from_field, p)}
    IN  IF starts # {}
        THEN LET p == CHOOSE x \in starts : \A y \in starts : x <= y
                 q == AddrRunEnd(from_field, p) + 1
             IN  SubSeq(from_field, p, AddrRunEnd(from_field, q + 1))
        ELSE IF from_field # <<>>
             THEN SubSeq(from_field, 1, IF Len(from_field) < 50 THEN Len(from_field) ELSE 50)
             ELSE <<"u","n","k","n","o","w","n">>

(***************************************************************************)
(* select_350_emails.py: the pools                                         *)
(***************************************************************************)
work_emails == SelectSeq(emails, LAMBDA e : e.personal_or_work = "work")
personal_emails == SelectSeq(emails, LAMBDA e : e.personal_or_work = "personal")

Pool(cat) == IF cat = "work" THEN work_emails ELSE personal_emails

\* variant: the filter reads the whole list instead of the category's pool
bucket_emailsAllCategories(pool, bucket) ==
    SelectSeq(emails, LAMBDA e : get_message_bucket(e) = bucket)

\* bucket_emails = [e for e in emails if get_message_bucket(e) == bucket]
bucket_emails(pool, bucket) ==
    SelectSeq(pool, LAMBDA e : get_message_bucket(e) = bucket)

\* selected_ids and remaining_1msg of the backfill
selected_ids(sel) == {sel[i].thread_id : i \in DOMAIN sel}

\* variant: the backfill forgets the id-set exclusion
remaining_1msgNoExclusion(pool, sel) ==
    SelectSeq(pool, LAMBDA e : get_message_bucket(e) = "1-msg")

\* variant: the backfill draws from every bucket
remaining_1msgAnyBucket(pool, sel) ==
    SelectSeq(pool, LAMBDA e : e.thread_id \notin selected_ids(sel))

\* variant: the backfill finds no candidate
remaining_1msgEmpty(pool, sel) == <<>>

remaining_1msg(pool, sel) ==
    SelectSeq(pool, LAMBDA e : /\ get_message_bucket(e) = "1-msg"
                               /\ e.thread_id \notin selected_ids(sel))

\* defaultdict(int): a key that was never written reads as 0
CountOf(counts, sender) == IF sender \in DOMAIN counts THEN counts[sender] ELSE 0

(***************************************************************************)
(* random.shuffle: Fisher-Yates, one draw randbelow(i+1) per position i    *)
(***************************************************************************)
Swap(x, a, b) == [x EXCEPT ![a] = x[b], ![b] = x[a]]

RECURSIVE ShuffleFrom(_, _, _)
ShuffleFrom(x, i, draws) ==
    IF i < 1 THEN x
    ELSE LET j == Head(draws) % (i + 1)
         IN  ShuffleFrom(Swap(x, i + 1, j + 1), i - 1, Tail(draws))

NumDraws(x) == IF Len(x) > 1 THEN Len(x) - 1 ELSE 0

\* the draws of one shuffle of x: the stream of the seed where it is already
\* known, any value below the bound of the draw where it is not
DrawsFor(x) ==
    {d \in [1..NumDraws(x) -> 0..(Len(x) - 1)] :
        \A k \in 1..NumDraws(x) :
            IF rpos + k <= Len(tape)
            THEN d[k] = tape[rpos + k]
            ELSE d[k] <= Len(x) - k}

\* shuffled = emails.copy(); random.shuffle(shuffled)
Shuffle(x) ==
    \E d \in DrawsFor(x) :
        /\ shuffled' = ShuffleFrom(x, Len(x) - 1, d)
        /\ tape' = SubSeq(tape, 1, rpos) \o d
                     \o SubSeq(tape, rpos + NumDraws(x) + 1, Len(tape))
        /\ rpos' = rpos + NumDraws(x)

\* variant: no seeding, the generator goes on with fresh draws
RandomSeedOmitted == rpos' = Len(tape)

\* random.seed(42): the stream restarts at its first draw
RandomSeed == rpos' = 0

(***************************************************************************)
(* Inputs                                                                  *)
(***************************************************************************)
Msg(d) == MessageWord \o <<" ", d>>

Contents ==
    << Msg("1"),
       Msg("1") \o <<"\n">> \o Msg("2"),
       Msg("1") \o <<"\n">> \o Msg("2") \o <<"\n">> \o Msg("3") >>

FromFields ==
    << <<"a","@","b">>,
       <<"A"," ","<","a","@","b",">">>,
       <<>> >>

Categories == <<"work", "personal">>

NumKinds == Len(Contents) * Len(FromFields) * Len(Categories)

\* the k-th combination of a from field, a content and a category
RecordOfKind(k, id) ==
    [thread_id |-> id,
     from |-> FromFields[((k - 1) % Len(FromFields)) + 1],
     full_content |-> Contents[(((k - 1) \div Len(FromFields)) % Len(Contents)) + 1],
     personal_or_work |->
         Categories[((k - 1) \div (Len(FromFields) * Len(Contents))) + 1]]

\* Every pool of NumEmails records with unique thread_id, listed in one
\* canonical order of its records' kinds: random.shuffle visits every order
\* of each candidate list, so the order of the input list adds no behaviour.
Pools ==
    {[i \in 1..NumEmails |-> RecordOfKind(ks[i], i)] :
        ks \in {f \in [1..NumEmails -> 1..NumKinds] :
                   \A i \in 1..(NumEmails - 1) : f[i] <= f[i + 1]}}

SelInit ==
    /\ emails \in Pools
    /\ pc = "main"
    /\ run = 1
    /\ category = "work"
    /\ bidx = 1
    /\ target_count = 0
    /\ shuffled = <<>>
    /\ pos = 1
    /\ sampled = <<>>
    /\ selected = <<>>
    /\ shortfall = 0
    /\ picked = 0
    /\ additional = <<>>
    /\ global_sender_counts = <<>>
    /\ selected_work = <<>>
    /\ all_selected = <<>>
    /\ first_selected = <<>>
    /\ tape = <<>>
    /\ rpos = 0

\* the values the variables of the selection keep in the other specifications
SelIdle ==
    /\ emails = <<>>
    /\ pc = "idle"
    /\ run = 1
    /\ category = "work"
    /\ bidx = 1
    /\ target_count = 0
    /\ shuffled = <<>>
    /\ pos = 1
    /\ sampled = <<>>
    /\ selected = <<>>
    /\ shortfall = 0
    /\ picked = 0
    /\ additional = <<>>
    /\ global_sender_counts = <<>>
    /\ selected_work = <<>>
    /\ all_selected = <<>>
    /\ first_selected = <<>>
    /\ tape = <<>>
    /\ rpos = 0

BktIdle ==
    /\ b_email = [thread_id |-> 0]
    /\ b_result = "idle"

MrgIdle ==
    /\ full_content = <<>>
    /\ email_preview = <<>>
    /\ m_pc = "idle"
    /\ m_lines = <<>>
    /\ m_idx = 0
    /\ from_line = <<>>
    /\ to_line = <<>>
    /\ subject_line = <<>>
    /\ time_line = <<>>

NumStages == 9

ClnIdle ==
    /\ clean_raw = <<>>
    /\ clean_content = <<>>
    /\ clean_text = <<>>
    /\ clean_prev = <<>>
    /\ stage = NumStages
    /\ pass = 0

Init == SelInit /\ BktIdle /\ MrgIdle /\ ClnIdle

(***************************************************************************)
(* main(): seed, fresh counter map, then the work call                     *)
(***************************************************************************)
MainStart ==
    /\ UNCHANGED notSelVars
    /\ pc = "main"
    /\ RandomSeed
    /\ global_sender_counts' = <<>>
    /\ category' = "work"
    /\ selected' = <<>>
    /\ shortfall' = 0
    /\ picked' = 0
    /\ additional' = <<>>
    /\ bidx' = 1
    /\ selected_work' = <<>>
    /\ all_selected' = <<>>
    /\ pc' = "bucket"
    /\ UNCHANGED <<emails, run, target_count, shuffled, pos, sampled,
                   first_selected, tape>>

(***************************************************************************)
(* select_emails_with_global_cap: one bucket of targets.items()            *)
(***************************************************************************)
\* variant: the bucket call asks for one record more than the bucket's target
BeginBucketTargetPlusOne ==
    /\ UNCHANGED notSelVars
    /\ pc = "bucket"
    /\ LET bucket == BucketOrder[bidx] IN
       /\ Shuffle(bucket_emails(Pool(category), bucket))
       /\ target_count' = Targets(category)[bucket] + 1
    /\ sampled' = <<>>
    /\ pos' = 1
    /\ pc' = "loop"
    /\ UNCHANGED <<emails, run, category, bidx, selected, shortfall, picked,
                   additional, global_sender_counts, selected_work,
                   all_selected, first_selected>>

BeginBucket ==
    /\ UNCHANGED notSelVars
    /\ pc = "bucket"
    /\ LET bucket == BucketOrder[bidx] IN
       /\ Shuffle(bucket_emails(Pool(category), bucket))
       /\ target_count' = Targets(category)[bucket]
    /\ sampled' = <<>>
    /\ pos' = 1
    /\ pc' = "loop"
    /\ UNCHANGED <<emails, run, category, bidx, selected, shortfall, picked,
                   additional, global_sender_counts, selected_work,
                   all_selected, first_selected>>

(***************************************************************************)
(* sample_with_global_sender_cap: the for loop                             *)
(***************************************************************************)
\* variant: the cap test always passes
UnderCapAlways(counts, sender, max_per_sender) == TRUE

\* variant: the cap test is off by one
UnderCapOffByOne(counts, sender, max_per_sender) ==
    CountOf(counts, sender) <= max_per_sender

\* the cap test of line 116
UnderCap(counts, sender, max_per_sender) == CountOf(counts, sender) < max_per_sender

LoopAccept ==
    /\ UNCHANGED notSelVars
    /\ pc \in {"loop", "fill_loop"}
    /\ pos <= Len(shuffled)
    /\ Len(sampled) < target_count
    /\ LET email == shuffled[pos]
           sender == extract_sender(email)
       IN  /\ UnderCap(global_sender_counts, sender, MAX_PER_SENDER)
           /\ sampled' = Append(sampled, email)
           /\ global_sender_counts' =
                  [k \in DOMAIN global_sender_counts \cup {sender} |->
                      IF k = sender THEN CountOf(global_sender_counts, sender) + 1
                      ELSE global_sender_counts[k]]
    /\ pos' = pos + 1
    /\ UNCHANGED <<emails, pc, run, category, bidx, target_count, shuffled,
                   selected, shortfall, picked, additional, selected_work,
                   all_selected, first_selected, tape, rpos>>

LoopSkip ==
    /\ UNCHANGED notSelVars
    /\ pc \in {"loop", "fill_loop"}
    /\ pos <= Len(shuffled)
    /\ Len(sampled) < target_count
    /\ LET email == shuffled[pos]
           sender == extract_sender(email)
       IN  /\ ~UnderCap(global_sender_counts, sender, MAX_PER_SENDER)
           \* the read of a defaultdict stores the key
           /\ global_sender_counts' =
                  [k \in DOMAIN global_sender_counts \cup {sender} |->
                      CountOf(global_sender_counts, k)]
    /\ pos' = pos + 1
    /\ UNCHANGED <<emails, pc, run, category, bidx, target_count, shuffled,
                   sampled, selected, shortfall, picked, additional,
                   selected_work, all_selected, first_selected, tape, rpos>>

\* the loop ends: target reached (break) or candidates exhausted
LoopDone == pos > Len(shuffled) \/ Len(sampled) >= target_count

\* return to the bucket loop: lines 137-141
BucketReturn ==
    /\ UNCHANGED notSelVars
    /\ pc = "loop"
    /\ LoopDone
    /\ selected' = selected \o sampled
    /\ picked' = picked + Len(sampled)
    /\ LET bucket_shortfall == target_count - Len(sampled) IN
       shortfall' = IF bucket_shortfall > 0 THEN shortfall + bucket_shortfall
                    ELSE shortfall
    /\ IF bidx < Len(BucketOrder)
       THEN bidx' = bidx + 1 /\ pc' = "bucket"
       ELSE bidx' = bidx /\ pc' = "fill"
    /\ UNCHANGED <<emails, run, category, target_count, shuffled, pos, sampled,
                   additional, global_sender_counts, selected_work,
                   all_selected, first_selected, tape, rpos>>

(***************************************************************************)
(* select_emails_with_global_cap: the backfill, lines 145-157              *)
(***************************************************************************)
BackfillBegin ==
    /\ UNCHANGED notSelVars
    /\ pc = "fill"
    /\ shortfall > 0
    /\ Shuffle(remaining_1msg(Pool(category), selected))
    /\ target_count' = shortfall
    /\ sampled' = <<>>
    /\ pos' = 1
    /\ pc' = "fill_loop"
    /\ UNCHANGED <<emails, run, category, bidx, selected, shortfall, picked,
                   additional, global_sender_counts, selected_work,
                   all_selected, first_selected>>

BackfillSkip ==
    /\ UNCHANGED notSelVars
    /\ pc = "fill"
    /\ ~(shortfall > 0)
    /\ pc' = "ret"
    /\ UNCHANGED <<emails, run, category, bidx, target_count, shuffled, pos,
                   sampled, selected, shortfall, picked, additional,
                   global_sender_counts, selected_work, all_selected,
                   first_selected, tape, rpos>>

BackfillReturn ==
    /\ UNCHANGED notSelVars
    /\ pc = "fill_loop"
    /\ LoopDone
    /\ additional' = sampled
    /\ selected' = selected \o sampled
    /\ pc' = "ret"
    /\ UNCHANGED <<emails, run, category, bidx, target_count, shuffled, pos,
                   sampled, shortfall, picked, global_sender_counts,
                   selected_work, all_selected, first_selected, tape, rpos>>

(***************************************************************************)
(* main(): lines 206-212                                                   *)
(***************************************************************************)
\* variant: the personal call gets a fresh counter map
WorkReturnFreshCounter ==
    /\ UNCHANGED notSelVars
    /\ pc = "ret"
    /\ category = "work"
    /\ selected_work' = selected
    /\ category' = "personal"
    /\ selected' = <<>>
    /\ shortfall' = 0
    /\ picked' = 0
    /\ additional' = <<>>
    /\ bidx' = 1
    /\ pc' = "bucket"
    /\ global_sender_counts' = <<>>
    /\ UNCHANGED <<emails, run, target_count, shuffled, pos, sampled,
                   all_selected, first_selected, tape, rpos>>

WorkReturn ==
    /\ UNCHANGED notSelVars
    /\ pc = "ret"
    /\ category = "work"
    /\ selected_work' = selected
    /\ category' = "personal"
    /\ selected' = <<>>
    /\ shortfall' = 0
    /\ picked' = 0
    /\ additional' = <<>>
    /\ bidx' = 1
    /\ pc' = "bucket"
    /\ UNCHANGED <<emails, run, target_count, shuffled, pos, sampled,
                   global_sender_counts, all_selected, first_selected, tape, rpos>>

PersonalReturn ==
    /\ UNCHANGED notSelVars
    /\ pc = "ret"
    /\ category = "personal"
    /\ all_selected' = selected_work \o selected
    /\ pc' = "done"
    /\ UNCHANGED <<emails, run, category, bidx, target_count, shuffled, pos,
                   sampled, selected, shortfall, picked, additional,
                   global_sender_counts, selected_work, first_selected, tape, rpos>>

\* the program is started a second time on the same input
Rerun ==
    /\ UNCHANGED notSelVars
    /\ pc = "done"
    /\ run = 1
    /\ run' = 2
    /\ first_selected' = all_selected
    /\ pc' = "main"
    /\ UNCHANGED <<emails, category, bidx, target_count, shuffled, pos, sampled,
                   selected, shortfall, picked, additional, global_sender_counts,
                   selected_work, all_selected, tape, rpos>>

Next ==
    \/ MainStart
    \/ BeginBucket
    \/ LoopAccept
    \/ LoopSkip
    \/ BucketReturn
    \/ BackfillBegin
    \/ BackfillSkip
    \/ BackfillReturn
    \/ WorkReturn
    \/ PersonalReturn
    \/ Rerun

Spec == Init /\ [][Next]_vars

(***************************************************************************)
(* get_message_bucket on one record                                        *)
(***************************************************************************)
BucketLineKinds ==
    << Msg("1"),
       MessageWord \o <<" ", "1", "2">>,
       MessageWord \o <<" ", "x">>,
       <<" ">> \o Msg("1"),
       <<"x">> >>

BktInit ==
    /\ b_email \in {[thread_id |-> 1, full_content |-> c] :
                       c \in TextsOf(BucketLineKinds, MaxBucketLines)}
                   \cup {[thread_id |-> 1]}
    /\ b_result = "none"

GetMessageBucket ==
    /\ b_result = "none"
    /\ b_result' = get_message_bucket(b_email)
    /\ UNCHANGED b_email
    /\ UNCHANGED notBktVars

NextBucket == GetMessageBucket

InitBucket == BktInit /\ SelIdle /\ MrgIdle /\ ClnIdle

SpecBucket == InitBucket /\ [][NextBucket]_vars

(***************************************************************************)
(* prepare_data.py: header parsing, lines 53-69                            *)
(***************************************************************************)
\* split("\n")[:20]
HEADER_WINDOW == 20

FromHeader == <<"F","r","o","m",":">>
ToHeader == <<"T","o",":">>
SubjectHeader == <<"S","u","b","j","e","c","t",":">>
TimeHeader == <<"T","i","m","e",":">>

content_for_parsing ==
    IF full_content # <<>> THEN full_content ELSE email_preview

\* content_for_parsing.split("\n")[:20]
ScannedLines ==
    LET ls == split(content_for_parsing, <<"\n">>)
    IN  SubSeq(ls, 1, IF Len(ls) < HEADER_WINDOW THEN Len(ls) ELSE HEADER_WINDOW)

\* line.replace(header, "").strip()
HeaderValue(line, header) == strip(replace(line, header, <<>>))

HeaderLineKinds ==
    << FromHeader \o <<" ", "a">>,
       <<" ">> \o FromHeader \o <<" ", "b">>,
       FromHeader,
       ToHeader \o <<" ", "a">>,
       SubjectHeader \o <<" ", "a">>,
       TimeHeader \o <<" ", "1">>,
       <<"x">> >>

\* numbers of filler lines put before the header lines
Paddings == {0, HEADER_WINDOW - 2, HEADER_WINDOW - 1, HEADER_WINDOW}

Padded(k, t) == join(<<"\n">>, [i \in 1..k |-> <<"x">>] \o <<t>>)

MrgInit ==
    /\ \E k \in Paddings, t \in TextsOf(HeaderLineKinds, MaxHeaderLines) :
        \/ full_content = Padded(k, t) /\ email_preview = <<>>
        \/ full_content = <<>> /\ email_preview = Padded(k, t)
    /\ m_pc = "start"
    /\ m_lines = <<>>
    /\ m_idx = 1
    /\ from_line = <<>>
    /\ to_line = <<>>
    /\ subject_line = <<>>
    /\ time_line = <<>>

\* "and not from_line": the field still holds the empty string
Unset(field) == field = <<>>

\* the for statement evaluates its list once
BeginScan ==
    /\ m_pc = "start"
    /\ m_lines' = ScannedLines
    /\ m_pc' = "scan"
    /\ UNCHANGED <<full_content, email_preview, m_idx, from_line, to_line,
                   subject_line, time_line>>
    /\ UNCHANGED notMrgVars

\* line = line.strip()
CurrentLine == strip(m_lines[m_idx])

Scanning == m_pc = "scan" /\ m_idx <= Len(m_lines)

ScanFrom ==
    /\ Scanning
    /\ startswith(CurrentLine, FromHeader) /\ Unset(from_line)
    /\ from_line' = HeaderValue(CurrentLine, FromHeader)
    /\ m_idx' = m_idx + 1
    /\ UNCHANGED <<full_content, email_preview, m_pc, m_lines, to_line, subject_line, time_line>>
    /\ UNCHANGED notMrgVars

ScanTo ==
    /\ Scanning
    /\ ~(startswith(CurrentLine, FromHeader) /\ Unset(from_line))
    /\ startswith(CurrentLine, ToHeader) /\ Unset(to_line)
    /\ to_line' = HeaderValue(CurrentLine, ToHeader)
    /\ m_idx' = m_idx + 1
    /\ UNCHANGED <<full_content, email_preview, m_pc, m_lines, from_line, subject_line, time_line>>
    /\ UNCHANGED notMrgVars

ScanSubject ==
    /\ Scanning
    /\ ~(startswith(CurrentLine, FromHeader) /\ Unset(from_line))
    /\ ~(startswith(CurrentLine, ToHeader) /\ Unset(to_line))
    /\ startswith(CurrentLine, SubjectHeader) /\ Unset(subject_line)
    /\ subject_line' = HeaderValue(CurrentLine, SubjectHeader)
    /\ m_idx' = m_idx + 1
    /\ UNCHANGED <<full_content, email_preview, m_pc, m_lines, from_line, to_line, time_line>>
    /\ UNCHANGED notMrgVars

ScanTime ==
    /\ Scanning
    /\ ~(startswith(CurrentLine, FromHeader) /\ Unset(from_line))
    /\ ~(startswith(CurrentLine, ToHeader) /\ Unset(to_line))
    /\ ~(startswith(CurrentLine, SubjectHeader) /\ Unset(subject_line))
    /\ startswith(CurrentLine, TimeHeader) /\ Unset(time_line)
    /\ time_line' = HeaderValue(CurrentLine, TimeHeader)
    /\ m_idx' = m_idx + 1
    /\ UNCHANGED <<full_content, email_preview, m_pc, m_lines, from_line, to_line, subject_line>>
    /\ UNCHANGED notMrgVars

ScanSkip ==
    /\ Scanning
    /\ ~(startswith(CurrentLine, FromHeader) /\ Unset(from_line))
    /\ ~(startswith(CurrentLine, ToHeader) /\ Unset(to_line))
    /\ ~(startswith(CurrentLine, SubjectHeader) /\ Unset(subject_line))
    /\ ~(startswith(CurrentLine, TimeHeader) /\ Unset(time_line))
    /\ m_idx' = m_idx + 1
    /\ UNCHANGED <<full_content, email_preview, m_pc, m_lines, from_line,
                   to_line, subject_line, time_line>>
    /\ UNCHANGED notMrgVars

ScanEnd ==
    /\ m_pc = "scan"
    /\ m_idx > Len(m_lines)
    /\ m_pc' = "done"
    /\ UNCHANGED <<full_content, email_preview, m_lines, m_idx, from_line, to_line,
                   subject_line, time_line>>
    /\ UNCHANGED notMrgVars

NextMerge ==
    \/ BeginScan
    \/ ScanFrom
    \/ ScanTo
    \/ ScanSubject
    \/ ScanTime
    \/ ScanSkip
    \/ ScanEnd

InitMerge == MrgInit /\ SelIdle /\ BktIdle /\ ClnIdle

SpecMerge == InitMerge /\ [][NextMerge]_vars

(***************************************************************************)
(* clean_emails.py: regular-expression helpers                             *)
(***************************************************************************)
Max(S) == CHOOSE x \in S : \A y \in S : y <= x

\* last index of the maximal run of characters of class cls starting at i
\* (i-1 if there is none)
RECURSIVE RunEnd(_, _, _)
RunEnd(cls, t, i) ==
    IF i <= Len(t) /\ t[i] \in cls THEN RunEnd(cls, t, i + 1) ELSE i - 1

\* last index of the maximal run of characters outside cls starting at i
RECURSIVE RunEndNot(_, _, _)
RunEndNot(cls, t, i) ==
    IF i <= Len(t) /\ t[i] \notin cls THEN RunEndNot(cls, t, i + 1) ELSE i - 1

\* no run of n or more characters of class cls
NoRun(t, cls, n) == \A i \in 1..Len(t) : RunEnd(cls, t, i) - i + 1 < n

\* [a-zA-Z0-9-]
HostChars == Range(UpperCase) \cup Range(LowerCase) \cup Digits \cup {"-"}

\* the characters [^\s)\]]+ stops at
UrlStops == SpaceChars \cup {")", "]"}

Base64Chars == Range(UpperCase) \cup Range(LowerCase) \cup Digits \cup {"+", "/", "="}

\* index of the last newline in t[i..j], 0 if there is none
LastNewline(t, i, j) ==
    LET s == {k \in i..j : k <= Len(t) /\ t[k] = "\n"}
    IN  IF s = {} THEN 0 ELSE Max(s)

SignatureName == <<"g","a","b","r","i","e","l"," ","k","r","e","i","m","a","n">>

HubspotDomain == <<".","h","u","b","s","p","o","t","l","i","n","k","s",".","c","o","m","/">>

ContentType == <<"C","o","n","t","e","n","t","-","T","y","p","e",":">>

ContentDisposition == <<"C","o","n","t","e","n","t","-","D","i","s","p","o","s","i","t","i","o","n",":">>

\* Where the leftmost-greedy match of a pattern that starts at position i ends,
\* 0 if the pattern does not match at i.  A greedy \s* followed by \n ends at
\* the last newline of the whitespace run.
MatchEnd(rule, t, i) ==
    CASE rule = "rule"          \* r'\n\s*[-*]{3,}\s*\n'
           -> IF t[i] # "\n" THEN 0
              ELSE LET w == RunEnd(SpaceChars, t, i + 1)
                       d == RunEnd({"-", "*"}, t, w + 1)
                       e == LastNewline(t, d + 1, RunEnd(SpaceChars, t, d + 1))
                   IN  IF d - w >= 3 THEN e ELSE 0
      [] rule = "newlines"      \* r'\n{3,}'
           -> LET n == RunEnd({"\n"}, t, i)
              IN  IF n - i + 1 >= 3 THEN n ELSE 0
      [] rule = "trailing"      \* r'[ \t]+\n'
           -> IF t[i] \notin {" ", "\t"} THEN 0
              ELSE LET b == RunEnd({" ", "\t"}, t, i)
                   IN  IF b + 1 <= Len(t) /\ t[b + 1] = "\n" THEN b + 1 ELSE 0
      [] rule = "blank"         \* r'\n\s*\|?\s*\n' on a text without '|'
           -> IF t[i] # "\n" THEN 0
              ELSE LastNewline(t, i + 1, RunEnd(SpaceChars, t, i + 1))
      [] rule = "brackets"      \* r'\[\s*\]'
           -> IF t[i] # "[" THEN 0
              ELSE LET w == RunEnd(SpaceChars, t, i + 1)
                   IN  IF w + 1 <= Len(t) /\ t[w + 1] = "]" THEN w + 1 ELSE 0
      [] rule = "encoded"       \* r'[A-Za-z0-9+/=]{100,}'
           -> IF Len(t) - i + 1 < 100 THEN 0
              ELSE LET r == RunEnd(Base64Chars, t, i)
                   IN  IF r - i + 1 >= 100 THEN r ELSE 0
      [] rule = "spacer"        \* r'\n[\s\u200c\u200b]+\n'
           -> IF t[i] # "\n" THEN 0
              ELSE LastNewline(t, i + 2, RunEnd(SpaceChars, t, i + 1))
      [] rule = "hubspot"
           \* r'https://[a-zA-Z0-9-]+\.(?:na\d*|eu\d*)\.hubspotlinks\.com/[^\s)\]]+'
           -> IF ~HasPrefixAt(t, i, <<"h","t","t","p","s",":","/","/">>) THEN 0
              ELSE LET a == RunEnd(HostChars, t, i + 8)
                       d == RunEnd(Digits, t, a + 4)
                       u == d + 1 + Len(HubspotDomain)
                       e == RunEndNot(UrlStops, t, u)
                   IN  IF /\ a >= i + 8
                          /\ HasPrefixAt(t, a + 1, <<".">>)
                          /\ \/ HasPrefixAt(t, a + 2, <<"n","a">>)
                             \/ HasPrefixAt(t, a + 2, <<"e","u">>)
                          /\ HasPrefixAt(t, d + 1, HubspotDomain)
                          /\ e >= u
                       THEN e ELSE 0
      [] rule = "attachment"
           \* r'Content-Type:\s*[^\n]+\nContent-Disposition:\s*[^\n]+\n', the
           \* optional groups absent and every value separated by one space
           -> IF ~HasPrefixAt(t, i, ContentType) THEN 0
              ELSE LET e1 == RunEndNot({"\n"}, t, i + Len(ContentType))
                       e2 == RunEndNot({"\n"}, t, e1 + 2 + Len(ContentDisposition))
                   IN  IF /\ HasPrefixAt(t, e1 + 1, <<"\n">> \o ContentDisposition)
                          /\ HasPrefixAt(t, e2 + 1, <<"\n">>)
                       THEN e2 + 1 ELSE 0
      [] rule = "parens"        \* r'\(\s*\)'
           -> IF t[i] # "(" THEN 0
              ELSE LET w == RunEnd(SpaceChars, t, i + 1)
                   IN  IF w + 1 <= Len(t) /\ t[w + 1] = ")" THEN w + 1 ELSE 0
      [] rule = "signature"     \* sig_pattern with re.IGNORECASE, optional groups absent
           -> IF \/ i + Len(SignatureName) - 1 > Len(t)
                 \/ lower(SubSeq(t, i, i + Len(SignatureName) - 1)) # SignatureName
              THEN 0
              ELSE LET n == i + Len(SignatureName)
                   IN  LastNewline(t, n, RunEnd(SpaceChars, t, n))

\* positions from i on where the pattern matches
MatchStarts(rule, t, i) == {p \in i..Len(t) : MatchEnd(rule, t, p) # 0}

Min(S) == CHOOSE x \in S : \A y \in S : x <= y

\* re.sub(pattern, repl, t), scanning from position i: the leftmost match is
\* replaced and the scan goes on after its end
RECURSIVE Sub(_, _, _, _)
Sub(rule, repl, t, i) ==
    LET starts == MatchStarts(rule, t, i)
    IN  IF starts = {} THEN SubSeq(t, i, Len(t))
        ELSE LET p == Min(starts)
             IN  SubSeq(t, i, p - 1) \o repl
                     \o Sub(rule, repl, t, MatchEnd(rule, t, p) + 1)

\* list(re.finditer(pattern, t)) as <<start, end>> pairs, scanning from i
RECURSIVE FindIter(_, _, _)
FindIter(rule, t, i) ==
    LET starts == MatchStarts(rule, t, i)
    IN  IF starts = {} THEN <<>>
        ELSE LET p == Min(starts)
                 e == MatchEnd(rule, t, p)
             IN  <<(<<p, e>>)>> \o FindIter(rule, t, e + 1)

\* a text in which none of the given literals occurs, compared in lower case
NoShape(t, shapes) ==
    \A s \in shapes : \A i \in 1..(Len(t) - Len(s) + 1) :
        LowerCh(t[i]) = s[1] => lower(SubSeq(t, i, i + Len(s) - 1)) # s

\* the result of a rule that the model does not cover; no modelled text gets here
OutsideModel == CHOOSE t \in {} : TRUE

(***************************************************************************)
(* clean_emails.py: the stages.  Every rule of a stage that is not written *)
(* out needs one of the stage's literals to match.                         *)
(***************************************************************************)
\* clean_tracking_urls: every pattern of lines 18-114 contains http
TrackingUrlShapes ==
    { <<"h","t","t","p">> }

\* a literal of each pattern of lines 18-114 other than the HubSpot pattern of
\* line 26 and the patterns that need a run of 30 or more of [a-zA-Z0-9_-]
OtherTrackingShapes ==
    { <<"u","r","l","d","e","f","e","n","s","e">>,
      <<"e","d","i","t","o","r","i","a","l","m","a","n","a","g","e","r">>,
      <<"!","[">>,
      <<"h","u","b","s","p","o","t","e","m","a","i","l">>,
      <<"c","l","i","c","k",".">>,
      <<"v","i","e","w",".">>,
      <<"s","e","n","d","g","r","i","d">>,
      <<"m","a","i","l","c","h","i","m","p">>,
      <<"c","a","m","p","a","i","g","n","-","a","r","c","h","i","v","e">>,
      <<"l","i","n","k","s",".","l","o","y","a","l","t","y">>,
      <<"t","r","a","c","k",".">>,
      <<"m","a","i","l","c","h","i",".","m","p">>,
      <<"l","i","s","t","-","m","a","n","a","g","e">>,
      <<"c","t","r","k",".">>,
      <<"l","i","n","k","e","d","i","n">>,
      <<"s","a","f","e","l","i","n","k","s">> }

\* [a-zA-Z0-9_-]
TokenChars == HostChars \cup {"_"}

clean_tracking_urls(text) ==
    IF NoShape(text, TrackingUrlShapes) THEN text
    ELSE IF NoShape(text, OtherTrackingShapes) /\ NoRun(text, TokenChars, 30)
    THEN Sub("hubspot", <<>>, text, 1)
    ELSE OutsideModel

\* clean_html_tags: every pattern starts with < or &#
HtmlShapes ==
    { <<"<">>,
      <<"&","#">> }

clean_html_tags(text) ==
    IF NoShape(text, HtmlShapes) THEN text ELSE OutsideModel

\* remove_attachment_metadata: the header names of its three patterns
AttachmentShapes ==
    { <<"c","o","n","t","e","n","t","-","t","y","p","e",":">>,
      <<"x","-","a","t","t","a","c","h","m","e","n","t","-","i","d",":">>,
      <<"c","o","n","t","e","n","t","-","i","d",":">> }

\* the header names of the optional groups and of the standalone patterns
OtherAttachmentShapes ==
    { <<"c","o","n","t","e","n","t","-","t","r","a","n","s","f","e","r","-","e","n","c","o","d","i","n","g",":">>,
      <<"x","-","a","t","t","a","c","h","m","e","n","t","-","i","d",":">>,
      <<"c","o","n","t","e","n","t","-","i","d",":">> }

\* every Content-Type: and Content-Disposition: is followed by one space and
\* a value on the same line
PlainValues(t) ==
    \A i \in 1..Len(t) :
        \A name \in {ContentType, ContentDisposition} :
            HasPrefixAt(t, i, name) =>
                /\ HasPrefixAt(t, i + Len(name), <<" ">>)
                /\ i + Len(name) + 1 <= Len(t)
                /\ t[i + Len(name) + 1] \notin SpaceChars

AttachmentMarker == <<"[","A","t","t","a","c","h","m","e","n","t","]">>

\* variant: the header block is deleted and no marker is written
remove_attachment_metadataNoMarker(text) ==
    IF NoShape(text, AttachmentShapes) THEN text
    ELSE Sub("attachment", <<>>, text, 1)

remove_attachment_metadata(text) ==
    IF NoShape(text, AttachmentShapes) THEN text
    ELSE IF NoShape(text, OtherAttachmentShapes) /\ PlainValues(text)
    THEN Sub("attachment", AttachmentMarker \o <<"\n">>, text, 1)
    ELSE OutsideModel

\* clean_markdown_artifacts: a literal of each pattern of lines 122-152
MarkdownShapes ==
    { <<"!","[">>,
      <<"(">>,
      <<"\\">>,
      <<"#","#">>,
      <<"[","l","i","n","k","]">>,
      <<"[","i","m","a","g","e",":"," ">>,
      <<"[","c","i","d",":">> }

\* a literal of each pattern of lines 122-152 that contains no parenthesis
OtherMarkdownShapes ==
    { <<"!","[">>,
      <<"\\">>,
      <<"#","#">>,
      <<"[","l","i","n","k","]">>,
      <<"[","i","m","a","g","e",":"," ">>,
      <<"[","c","i","d",":">> }

\* no r'\[([^\]]+)\]\([^)]{80,}\)': fewer than 80 characters follow every ](
\* before the next )
ShortLinks(t) ==
    \A i \in 1..Len(t) :
        HasPrefixAt(t, i, <<"]", "(">>) => RunEndNot({")"}, t, i + 2) - (i + 1) < 80

clean_markdown_artifacts(text) ==
    IF NoShape(text, MarkdownShapes) THEN text
    ELSE IF /\ NoShape(text, OtherMarkdownShapes)
            /\ ShortLinks(text)
            /\ MatchStarts("brackets", text, 1) = {}
    THEN Sub("parens", <<>>, text, 1)
    ELSE OutsideModel

Separator == <<"\n","-","-","-","\n">>

\* re.search(r'^Message \d+', stripped, re.MULTILINE)
HasMessageHeader(stripped) == \E i \in 1..Len(stripped) : HeaderAt(stripped, i)

\* variant: a text without separator is stripped like a single first part
remove_duplicate_contentAlwaysStrips(text) ==
    LET parts == split(text, Separator)
        message_parts == SelectSeq(parts, LAMBDA part : HasMessageHeader(strip(part)))
    IN  IF message_parts # <<>> /\ Len(parts) > 1 THEN join(<<"\n","\n">>, message_parts)
        ELSE strip(parts[1])

\* variant: only the first message part is returned
remove_duplicate_contentFirstOnly(text) ==
    LET parts == split(text, Separator)
        message_parts == SelectSeq(parts, LAMBDA part : HasMessageHeader(strip(part)))
    IN  IF Len(parts) <= 1 THEN text
        ELSE IF message_parts # <<>> THEN message_parts[1]
        ELSE strip(parts[1])

remove_duplicate_content(text) ==
    LET parts == split(text, Separator)
        message_parts == SelectSeq(parts, LAMBDA part : HasMessageHeader(strip(part)))
    IN  IF Len(parts) <= 1 THEN text
        ELSE IF message_parts # <<>> THEN join(<<"\n","\n">>, message_parts)
        ELSE strip(parts[1])

\* clean_boilerplate: a literal of each pattern of lines 206-298 other than the
\* horizontal-rule pattern of line 270
BoilerplateShapes ==
    { <<"t","h","e"," ","i","n","f","o","r","m","a","t","i","o","n"," ","c","o","n","t","a","i","n","e","d">>,
      <<"p","l","e","a","s","e"," ","c","o","n","s","i","d","e","r"," ","t","h","e"," ","e","n","v","i","r","o","n","m","e","n","t">>,
      <<"n","o","t","i","c","e"," ","o","f"," ","c","o","n","f","i","d","e","n","t","i","a","l","i","t","y">>,
      <<"i","n"," ","c","o","m","p","l","i","a","n","c","e"," ","w","i","t","h"," ","d","a","t","a"," ","p","r","o","t","e","c","t","i","o","n">>,
      <<"u","n","s","u","b","s","c","r","i","b","e">>,
      <<"m","a","n","a","g","e"," ","p","r","e","f","e","r","e","n","c","e","s">>,
      <<"e","m","a","i","l"," ","p","r","e","f","e","r","e","n","c","e","s">>,
      <<"p","r","i","v","a","c","y"," ","p","o","l","i","c","y">>,
      <<"c","o","n","t","a","c","t"," ","u","s">>,
      <<"v","i","e","w"," ","a","s"," ","a"," ","w","e","b"," ","p","a","g","e">>,
      <<"d","o","w","n","l","o","a","d"," ","t","h","e"," ","l","a","t","e","s","t">>,
      <<"f","o","r","b","e","s"," ","c","o","u","n","c","i","l","s">>,
      <<"u","n","i","t","e","d"," ","a","i","r","l","i","n","e","s">>,
      <<"w","e"," ","d","o"," ","n","o","t"," ","m","o","n","i","t","o","r">>,
      <<"(","m","a","i","l","t","o",":">>,
      <<"[","l","i","n","k","]">>,
      <<"[","i","m","a","g","e","]">>,
      <<"*">>,
      <<"&">>,
      <<"<">> }

clean_boilerplate(text) ==
    IF NoShape(text, BoilerplateShapes)
    THEN Sub("rule", <<"\n","\n">>, text, 1)
    ELSE OutsideModel

\* clean_signatures: a literal of each optional group of sig_pattern
SignatureShapes ==
    { <<"p","r","o","f","e","s","s","o","r">>,
      <<"c","h","i","l","d","r","e","n","'","s"," ","h","o","s","p","i","t","a","l">>,
      <<"h","a","r","v","a","r","d"," ","m","e","d","i","c","a","l"," ","s","c","h","o","o","l">>,
      <<"h","t","t","p">>,
      <<"c","h","e","c","k"," ","o","u","t"," ","o","u","r"," ","n","e","w"," ","b","o","o","k">>,
      <<"c","a","m","b","r","i","d","g","e",".","o","r","g">> }

SignaturePlaceholder ==
    <<"\n","-","-"," ","G","a","b","r","i","e","l"," ","K","r","e","i","m","a","n","\n">>

\* text = text[:sig.start()] + placeholder + text[sig.end():], last span first
RECURSIVE ReplaceReversed(_, _, _)
ReplaceReversed(t, spans, repl) ==
    IF spans = <<>> THEN t
    ELSE LET sig == spans[Len(spans)]
         IN  ReplaceReversed(SubSeq(t, 1, sig[1] - 1) \o repl
                                 \o SubSeq(t, sig[2] + 1, Len(t)),
                             SubSeq(spans, 1, Len(spans) - 1), repl)

clean_signatures(text) ==
    IF NoShape(text, {SignatureName}) THEN text
    ELSE IF NoShape(text, SignatureShapes)
    THEN LET sigs == FindIter("signature", text, 1)
         IN  IF Len(sigs) > 1
             THEN ReplaceReversed(text, Tail(sigs), SignaturePlaceholder)
             ELSE text
    ELSE OutsideModel

\* the while loop of lines 385-389
RECURSIVE QuoteDepth(_)
QuoteDepth(line) ==
    LET stripped == lstrip(line)
    IN  IF startswith(stripped, <<">">>) THEN 1 + QuoteDepth(Tail(stripped)) ELSE 0

TruncatedMarker ==
    <<"[","P","r","e","v","i","o","u","s"," ","m","e","s","s","a","g","e","s"," ",
      "t","r","u","n","c","a","t","e","d","]">>

\* the for loop of lines 383-397 from line i on
RECURSIVE QuoteLoop(_, _, _)
QuoteLoop(lines, i, in_deep_quote) ==
    IF i > Len(lines) THEN <<>>
    ELSE IF QuoteDepth(lines[i]) <= 1
         THEN <<lines[i]>> \o QuoteLoop(lines, i + 1, FALSE)
         ELSE IF ~in_deep_quote
              THEN <<TruncatedMarker>> \o QuoteLoop(lines, i + 1, TRUE)
              ELSE QuoteLoop(lines, i + 1, in_deep_quote)

\* variant: in_deep_quote starts as True
simplify_quoted_repliesStartsDeep(text) ==
    join(<<"\n">>, QuoteLoop(split(text, <<"\n">>), 1, TRUE))

simplify_quoted_replies(text) ==
    join(<<"\n">>, QuoteLoop(split(text, <<"\n">>), 1, FALSE))

\* clean_whitespace: a literal of each pattern of lines 315-351 that is not written out
WhitespaceShapes ==
    { <<"[",".",".",".","]">>,
      <<"|">>,
      <<"]","(","t","e","l",":">>,
      <<"]","(","\n">>,
      <<"_">>,
      <<"\r">> }

EncodedMarker ==
    <<"[","e","n","c","o","d","e","d"," ","c","o","n","t","e","n","t"," ",
      "r","e","m","o","v","e","d","]">>

clean_whitespace(text) ==
    IF NoShape(text, WhitespaceShapes)
    THEN LET t1 == Sub("newlines", <<"\n","\n">>, text, 1)
             t2 == Sub("trailing", <<"\n">>, t1, 1)
             t3 == strip(t2)
             t4 == Sub("blank", <<"\n">>, t3, 1)
             t5 == Sub("parens", <<>>, Sub("brackets", <<>>, t4, 1), 1)
             t6 == Sub("encoded", EncodedMarker, t5, 1)
         IN  Sub("spacer", <<"\n">>, t6, 1)
    ELSE OutsideModel

(***************************************************************************)
(* clean_emails.py: clean_email_content, stage by stage                    *)
(***************************************************************************)
CleanLineKinds ==
    << <<"x">>,
       Msg("1"),
       <<"-","-","-">>,
       <<">",">"," ","q">>,
       <<">"," ","q">>,
       <<"G","a","b","r","i","e","l"," ","K","r","e","i","m","a","n">>,
       <<>> >>

ClnInit ==
    /\ clean_raw \in TextsOf(CleanLineKinds, MaxCleanLines)
    /\ clean_content = clean_raw
    /\ clean_text = clean_raw
    /\ clean_prev = clean_raw
    /\ stage = 0
    /\ pass = 1

\* text = f(text), the k-th statement of clean_email_content
StageStep(k, result) ==
    /\ pass \in {1, 2}
    /\ stage = k - 1
    /\ clean_text' = result
    /\ clean_prev' = clean_text
    /\ stage' = k
    /\ UNCHANGED <<clean_raw, clean_content, pass>>
    /\ UNCHANGED notClnVars

CleanTrackingUrls == StageStep(1, clean_tracking_urls(clean_text))
CleanHtmlTags == StageStep(2, clean_html_tags(clean_text))
\* variant: the third stage reads the content the call was given
RemoveAttachmentMetadataFromContent ==
    StageStep(3, remove_attachment_metadata(clean_content))

RemoveAttachmentMetadata == StageStep(3, remove_attachment_metadata(clean_text))
CleanMarkdownArtifacts == StageStep(4, clean_markdown_artifacts(clean_text))
RemoveDuplicateContent == StageStep(5, remove_duplicate_content(clean_text))
CleanBoilerplate == StageStep(6, clean_boilerplate(clean_text))
CleanSignatures == StageStep(7, clean_signatures(clean_text))
SimplifyQuotedReplies == StageStep(8, simplify_quoted_replies(clean_text))
CleanWhitespace == StageStep(9, clean_whitespace(clean_text))

\* clean_email_content is applied to its own result
CleanAgain ==
    /\ pass = 1
    /\ stage = NumStages
    /\ clean_content' = clean_text
    /\ clean_prev' = clean_text
    /\ stage' = 0
    /\ pass' = 2
    /\ UNCHANGED <<clean_raw, clean_text>>
    /\ UNCHANGED notClnVars

NextClean ==
    \/ CleanTrackingUrls
    \/ CleanHtmlTags
    \/ RemoveAttachmentMetadata
    \/ CleanMarkdownArtifacts
    \/ RemoveDuplicateContent
    \/ CleanBoilerplate
    \/ CleanSignatures
    \/ SimplifyQuotedReplies
    \/ CleanWhitespace
    \/ CleanAgain

InitClean == ClnInit /\ SelIdle /\ BktIdle /\ MrgIdle

SpecClean == InitClean /\ [][NextClean]_vars

(***************************************************************************)
(* clean_email_content on bodies with markdown links to HubSpot hosts and  *)
(* MIME-style header lines                                                 *)
(***************************************************************************)
PlainHubspotLink ==
    <<"[","c","l","i","c","k"," ","h","e","r","e","]","(","h","t","t","p",
       "s",":","/","/","a","b","c",".","h","u","b","s","p","o","t","l","i",
       "n","k","s",".","c","o","m","/","v","e","r","y","l","o","n","g","p",
       "a","t","h",")">>

RegionHubspotLink ==
    <<"[","c","l","i","c","k"," ","h","e","r","e","]","(","h","t","t","p",
       "s",":","/","/","a","b","c",".","n","a","1",".","h","u","b","s","p",
       "o","t","l","i","n","k","s",".","c","o","m","/","v","e","r","y","l",
       "o","n","g","p","a","t","h",")">>

ScenarioLineKinds ==
    << PlainHubspotLink,
       RegionHubspotLink,
       ContentType \o <<" ","t","e","x","t","/","p","l","a","i","n">>,
       ContentDisposition \o <<" ","a","t","t","a","c","h","m","e","n","t">>,
       <<"f","o","o">> >>

ScnInit ==
    /\ clean_raw \in TextsOf(ScenarioLineKinds, MaxScenarioLines)
    /\ clean_content = clean_raw
    /\ clean_text = clean_raw
    /\ clean_prev = clean_raw
    /\ stage = 0
    /\ pass = 1

InitScenario == ScnInit /\ SelIdle /\ BktIdle /\ MrgIdle

SpecScenario == InitScenario /\ [][NextClean]_vars

(***************************************************************************)
(* Properties of the selection                                             *)
(***************************************************************************)
RECURSIVE SumOver(_, _)
SumOver(f, S) ==
    IF S = {} THEN 0
    ELSE LET x == CHOOSE y \in S : TRUE IN f[x] + SumOver(f, S \ {x})

SumTargets(cat) == SumOver(Targets(cat), DOMAIN Targets(cat))

CountSender(sel, s) ==
    Cardinality({i \in DOMAIN sel : extract_sender(sel[i]) = s})

CountBucket(sel, b) ==
    Cardinality({i \in DOMAIN sel : get_message_bucket(sel[i]) = b})

SendersOf(sel) == {extract_sender(sel[i]) : i \in DOMAIN sel}

\* the per-bucket picks of the running call, without the backfill
Picks == SubSeq(selected, 1, picked)

\* C1: after a full run no sender key occurs in the combined selected list
\* more than MAX_PER_SENDER times, counting both categories, every bucket and
\* the backfill.
SenderCapInvariant ==
    pc = "done" =>
        \A s \in SendersOf(all_selected) \cup SendersOf(emails) :
            CountSender(all_selected, s) <= MAX_PER_SENDER

\* a finished run where one sender is at the cap with records of both
\* categories selected and a further record of that sender left out
SenderCapWitness ==
    /\ pc = "done"
    /\ \E s \in SendersOf(emails) :
        /\ CountSender(all_selected, s) = MAX_PER_SENDER
        /\ CountSender(selected_work, s) >= 1
        /\ CountSender(selected, s) >= 1
        /\ CountSender(emails, s) > MAX_PER_SENDER

\* C2: for a pool with unique thread_id the final selected list contains no
\* thread_id more than once.
NoDuplicateIds ==
    pc = "done" =>
        \A i, j \in DOMAIN all_selected :
            i # j => all_selected[i].thread_id # all_selected[j].thread_id

\* a finished run whose personal call backfilled and whose work call selected
NoDuplicateIdsWitness ==
    /\ pc = "done"
    /\ additional # <<>>
    /\ selected_work # <<>>
    /\ Len(all_selected) >= 3

\* C3: a second run from the same seed, pool, targets and cap, with a fresh
\* counter map, produces the same selected list, in the same order.
Reproducibility ==
    (run = 2 /\ pc = "done") => all_selected = first_selected

\* a finished second run whose shuffles drew random numbers and whose output
\* is not in the order of the input list
ReproducibilityWitness ==
    /\ run = 2
    /\ pc = "done"
    /\ Len(tape) > 0
    /\ \E i, j \in DOMAIN all_selected :
        /\ i < j
        /\ all_selected[i].personal_or_work = all_selected[j].personal_or_work
        /\ all_selected[i].thread_id > all_selected[j].thread_id

\* C4: when a category call returns, the shortfall is the sum over buckets of
\* (target - accepted in that bucket) for the buckets that fell short, and the
\* backfill consists of at most shortfall records of the same pool whose bucket
\* is 1-msg and whose thread_id was not selected by the buckets, taken in the
\* order of a shuffle of exactly those records and each under the sender cap.
ShortfallBackfill ==
    pc = "ret" =>
        /\ shortfall =
             SumOver([b \in Range(BucketOrder) |->
                        IF Targets(category)[b] > CountBucket(Picks, b)
                        THEN Targets(category)[b] - CountBucket(Picks, b)
                        ELSE 0],
                     Range(BucketOrder))
        /\ selected = Picks \o additional
        /\ Len(additional) <= shortfall
        /\ \A i \in DOMAIN additional :
            /\ additional[i] \in Range(Pool(category))
            /\ get_message_bucket(additional[i]) = "1-msg"
            /\ additional[i].thread_id \notin selected_ids(Picks)
            /\ CountSender(selected_work \o selected, extract_sender(additional[i]))
                   <= MAX_PER_SENDER
        /\ shortfall > 0 =>
            /\ Range(shuffled) = Range(remaining_1msg(Pool(category), Picks))
            /\ Len(shuffled) = Len(remaining_1msg(Pool(category), Picks))
            /\ \E f \in [DOMAIN additional -> DOMAIN shuffled] :
                /\ \A i \in DOMAIN additional : shuffled[f[i]] = additional[i]
                /\ \A i, j \in DOMAIN additional : i < j => f[i] < f[j]

\* a call that returns with a backfilled record although its 1-msg bucket met
\* its own target: the shortfall came from another bucket
ShortfallBackfillWitness ==
    /\ pc = "ret"
    /\ additional # <<>>
    /\ CountBucket(Picks, "1-msg") = Targets(category)["1-msg"]
    /\ shortfall > 0

\* C5: when the remaining 1-msg records run out or are all blocked by the
\* cap before the shortfall is met, the loop still returns, the call returns a
\* shorter list, and every returned record is a record of the input pool.
ExhaustedBackfillNoError ==
    /\ (pc = "fill_loop" /\ pos > Len(shuffled) /\ Len(sampled) < target_count)
           => ENABLED BackfillReturn
    /\ pc = "ret" =>
        /\ \A i \in DOMAIN selected : selected[i] \in Range(Pool(category))
        /\ Len(selected) = SumTargets(category) - shortfall + Len(additional)
        /\ Len(additional) < shortfall => Len(selected) < SumTargets(category)

\* a call that returns short after a backfill that refused a candidate
ExhaustedBackfillWitness ==
    /\ pc = "ret"
    /\ shortfall > 0
    /\ Len(additional) < shortfall
    /\ Len(shuffled) > Len(additional)
    /\ Len(selected) < SumTargets(category)

\* the records of sender s accepted in the run before the running
\* sample_with_global_sender_cap call began
AcceptedBefore(s) == CountSender(selected_work \o selected, s)

\* the candidate at position k of shuffled was accepted by the running call
IsAccepted(k) == \E i \in DOMAIN sampled : sampled[i] = shuffled[k]

\* extract_sender reads nothing of a record but its from field: the key of
\* every from field of the pools
SenderOfField == [f \in Range(FromFields) |-> extract_sender([from |-> f])]

\* the sender key of every record of a list
SenderKeysOf(sel) == [i \in DOMAIN sel |-> SenderOfField[sel[i].from]]

CountKey(keys, s) == Cardinality({i \in DOMAIN keys : keys[i] = s})

Min2(a, b) == IF a <= b THEN a ELSE b

AcceptedSoFar ==
    selected_work \o selected
        \o (IF pc \in {"loop", "fill_loop"} THEN sampled ELSE <<>>)

\* every sender key the run can meet
SenderKeys == Range(SenderKeysOf(emails)) \cup DOMAIN global_sender_counts

\* the counter of every sender is the number of its records accepted so far
CounterMatches ==
    LET keys == SenderKeysOf(AcceptedSoFar)
    IN  \A s \in SenderKeys :
            CountOf(global_sender_counts, s) = CountKey(keys, s)

\* one step of a run: no count goes down; a count goes up by exactly 1, and
\* only in a step of the sampling loop that accepts a record of that sender
CounterStep ==
    (pc # "main" /\ global_sender_counts' # global_sender_counts) =>
        \A s \in SenderKeys :
            \/ CountOf(global_sender_counts', s) = CountOf(global_sender_counts, s)
            \/ /\ CountOf(global_sender_counts', s)
                      = CountOf(global_sender_counts, s) + 1
               /\ pc \in {"loop", "fill_loop"}
               /\ pos <= Len(shuffled)
               /\ extract_sender(shuffled[pos]) = s
               /\ sampled' = Append(sampled, shuffled[pos])

\* C16: one counter map serves the work and the personal call of a run; every
\* step leaves each sender's count unchanged or raises it by exactly 1, on the
\* acceptance of a record of that sender, never lowers or resets it, and at
\* every point the count of a sender is the number of its records accepted so
\* far in the run, work call and personal call together.
CounterMonotone == []CounterMatches /\ [][CounterStep]_vars

\* the personal call accepts a record of a sender counted in the work call
CounterMonotoneWitness ==
    /\ pc = "loop"
    /\ category = "personal"
    /\ \E s \in SenderKeys :
        /\ CountSender(selected_work, s) = 1
        /\ CountSender(sampled, s) = 1
        /\ CountOf(global_sender_counts, s) = 2

\* the targets of the two calls of main(), as written in the configuration
SumOfTargets ==
    IF category = "work"
    THEN WORK_TARGETS["1-msg"] + WORK_TARGETS["2-msg"] + WORK_TARGETS["3+msg"]
    ELSE PERSONAL_TARGETS["1-msg"] + PERSONAL_TARGETS["2-msg"]
             + PERSONAL_TARGETS["3+msg"]

Unselected1msg ==
    {i \in DOMAIN Pool(category) :
        /\ get_message_bucket(Pool(category)[i]) = "1-msg"
        /\ \A j \in DOMAIN selected : selected[j] # Pool(category)[i]}

\* C19: a category call that returns fewer records than the sum of its targets
\* leaves no eligible 1-msg record behind: every unselected 1-msg record of the
\* pool has a sender whose count is at least MAX_PER_SENDER when the call
\* returns.
ShortOnlyByExhaustion ==
    (pc = "ret" /\ Len(selected) < SumOfTargets) =>
        \A i \in Unselected1msg :
            CountOf(global_sender_counts, extract_sender(Pool(category)[i]))
                >= MAX_PER_SENDER

\* a short call that left a 1-msg record of a capped sender unselected
ShortOnlyByExhaustionWitness ==
    /\ pc = "ret"
    /\ Len(selected) < SumOfTargets
    /\ Unselected1msg # {}
    /\ Len(selected) > picked

(***************************************************************************)
(* Properties of the bucket assignment                                     *)
(***************************************************************************)
\* the number of lines of the content that start with 'Message <digits>'
HeaderLineCount(email) ==
    LET lines == IF "full_content" \in DOMAIN email
                 THEN split(email.full_content, <<"\n">>) ELSE <<>>
    IN  Cardinality({i \in DOMAIN lines :
                        /\ startswith(lines[i], MessageWord \o <<" ">>)
                        /\ Len(lines[i]) >= 9
                        /\ IsDigit(lines[i][9])})

\* C9: the bucket is determined by the number of lines starting with
\* 'Message <digits>': 1 gives 1-msg, 2 gives 2-msg, 3 or more gives 3+msg, 0 or
\* missing content gives 1-msg; the result is always one of the three buckets.
BucketAssignment ==
    b_result \notin {"none", "idle"} =>
        LET n == HeaderLineCount(b_email) IN
        /\ b_result \in Range(BucketOrder)
        /\ n = 0 => b_result = "1-msg"
        /\ n = 1 => b_result = "1-msg"
        /\ n = 2 => b_result = "2-msg"
        /\ n >= 3 => b_result = "3+msg"

\* a record with more than three message headers was put in a bucket
BucketAssignmentWitness ==
    /\ b_result = "3+msg"
    /\ HeaderLineCount(b_email) >= 4

(***************************************************************************)
(* Properties of the header parsing                                        *)
(***************************************************************************)
\* the value of the first scanned line that starts with the header
FirstHeaderValue(header) ==
    LET idxs == {i \in DOMAIN m_lines : startswith(strip(m_lines[i]), header)}
    IN  HeaderValue(strip(m_lines[CHOOSE i \in idxs : \A j \in idxs : i <= j]),
                    header)

HasHeader(header) ==
    \E i \in DOMAIN m_lines : startswith(strip(m_lines[i]), header)

\* C10: each of From, To, Subject and Time is taken from the first line among
\* the first 20 that starts with the header; later lines with the same header
\* are ignored whatever the first line's value is, the empty value included.
FirstHeaderLineWins ==
    m_pc = "done" =>
        /\ HasHeader(FromHeader) => from_line = FirstHeaderValue(FromHeader)
        /\ HasHeader(ToHeader) => to_line = FirstHeaderValue(ToHeader)
        /\ HasHeader(SubjectHeader) => subject_line = FirstHeaderValue(SubjectHeader)
        /\ HasHeader(TimeHeader) => time_line = FirstHeaderValue(TimeHeader)

(***************************************************************************)
(* Properties of the cleaning pipeline                                     *)
(***************************************************************************)
\* a line of t starts with 'Message <digits>'
HasHeaderLine(t) ==
    LET lines == split(t, <<"\n">>)
    IN  \E i \in DOMAIN lines :
            /\ startswith(lines[i], MessageWord \o <<" ">>)
            /\ Len(lines[i]) >= 9
            /\ IsDigit(lines[i][9])

\* t, without surrounding whitespace, begins with 'Message <digits>'
BeginsWithHeader(t) ==
    LET s == strip(t)
    IN  startswith(s, MessageWord \o <<" ">>) /\ Len(s) >= 9 /\ IsDigit(s[9])

\* the segments of the input of remove_duplicate_content
Segments == split(clean_prev, Separator)

MarkerTokens ==
    { <<"[","I","m","a","g","e","]">>,
      <<"[","A","t","t","a","c","h","m","e","n","t","]">>,
      EncodedMarker }

\* C7, as claimed: for an input without marker tokens, cleaning the cleaned
\* text again gives the cleaned text.
Idempotence ==
    (pass = 2 /\ stage = NumStages
       /\ \A m \in MarkerTokens : ~Contains(clean_raw, m)) =>
        clean_text = clean_content

\* the characters of the modelled texts
TextChars ==
    Range(UpperCase) \cup Range(LowerCase) \cup Digits \cup SpaceChars
        \cup {"-", ">", "[", "]"}

\* what each written-out stage looks for in its input
ShapeAbsent(k, t) ==
    CASE k = 5 -> ~Contains(t, Separator)
      [] k = 6 -> \A i \in 1..Len(t) : RunEnd({"-", "*"}, t, i) - i + 1 < 3
      [] k = 7 -> Cardinality({i \in 1..(Len(t) - Len(SignatureName) + 1) :
                      lower(SubSeq(t, i, i + Len(SignatureName) - 1))
                          = SignatureName}) <= 1
      [] k = 8 -> \A line \in Range(split(t, <<"\n">>)) :
                      Cardinality({i \in DOMAIN line : line[i] = ">"}) <= 1
      [] k = 9 -> /\ t = strip(t)
                  /\ \A i \in 2..Len(t) : t[i] = "\n" => t[i - 1] \notin SpaceChars
                  /\ \A i \in 1..(Len(t) - 1) :
                         t[i] = "[" => t[i + 1] \notin SpaceChars \cup {"]"}
                  /\ Len(t) < 100
      [] OTHER -> FALSE

\* C8: every stage of clean_email_content returns a text, for the empty and
\* the all-whitespace input too, and a stage whose shape is absent from its
\* input returns the input unchanged.
CleanIsTotal ==
    pass \in {1, 2} =>
        /\ clean_text \in Seq(TextChars)
        /\ (stage \in 5..NumStages /\ ShapeAbsent(stage, clean_prev)) =>
               clean_text = clean_prev

\* the pipeline finished on a non-empty input of whitespace only
CleanIsTotalWitness ==
    /\ pass = 1
    /\ stage = NumStages
    /\ clean_raw # <<>>
    /\ \A i \in DOMAIN clean_raw : clean_raw[i] \in SpaceChars
    /\ clean_text = <<>>

\* the number of '>' markers at the head of a line, whitespace around them
\* not counted
LeadingMarkers(line) ==
    LET head == RunEnd(SpaceChars \cup {">"}, line, 1)
    IN  Cardinality({i \in 1..head : line[i] = ">"})

\* every line of depth <= 1 verbatim and one marker line in the place of the
\* first line of every maximal run of lines of depth >= 2
TruncatedRuns(lines) ==
    LET deep == [i \in DOMAIN lines |-> LeadingMarkers(lines[i]) >= 2]
        positions == SelectSeq([i \in DOMAIN lines |-> i],
                               LAMBDA i : ~deep[i] \/ i = 1 \/ ~deep[i - 1])
    IN  [j \in DOMAIN positions |->
            IF deep[positions[j]] THEN TruncatedMarker ELSE lines[positions[j]]]

\* C14: the output of simplify_quoted_replies is, in order, every line of
\* depth <= 1 verbatim and one line '[Previous messages truncated]' in the
\* place of the first line of every maximal run of lines of depth >= 2; the
\* other lines of a run give no output.
QuotedRepliesSimplified ==
    (pass \in {1, 2} /\ stage = 8) =>
        clean_text = join(<<"\n">>, TruncatedRuns(split(clean_prev, <<"\n">>)))

\* two runs of deep lines, the first of two lines, with a kept line between
QuotedRepliesSimplifiedWitness ==
    /\ pass = 1
    /\ stage = 8
    /\ LET lines == split(clean_prev, <<"\n">>)
       IN  /\ Len(lines) = 4
           /\ LeadingMarkers(lines[1]) = 2
           /\ LeadingMarkers(lines[2]) = 2
           /\ LeadingMarkers(lines[3]) = 0
           /\ LeadingMarkers(lines[4]) = 2
    /\ clean_text = TruncatedMarker \o <<"\n", "x", "\n">> \o TruncatedMarker

\* the lines of a body before its first separator line, as one text
FirstSegmentByLines(lines) ==
    LET seps == {i \in DOMAIN lines : lines[i] = <<"-","-","-">>}
    IN  join(<<"\n">>, SubSeq(lines, 1, Min(seps) - 1))

\* C15, as claimed: a body with at least one separator line '---' and no
\* 'Message N' header line comes out of remove_duplicate_content as its first
\* segment, stripped, the later segments dropped; a body without separator
\* line comes out unchanged.
SingleMessageSegmentation ==
    (pass = 1 /\ stage = 5) =>
        LET lines == split(clean_prev, <<"\n">>)
            has_separator == \E i \in DOMAIN lines : lines[i] = <<"-","-","-">>
        IN  /\ (has_separator /\ ~HasHeaderLine(clean_prev)) =>
                   clean_text = strip(FirstSegmentByLines(lines))
            /\ ~has_separator => clean_text = clean_prev

(***************************************************************************)
(* Properties of the cleaning scenarios and of the order of the stages     *)
(***************************************************************************)
\* 'https://abc.hubspotlinks.com/verylongpath'
PlainHubspotUrl == SubSeq(PlainHubspotLink, 14, Len(PlainHubspotLink) - 1)

\* C11, as claimed: cleaning the body
\* '[click here](https://abc.hubspotlinks.com/verylongpath)' gives a result
\* that no longer contains 'https://abc.hubspotlinks.com/verylongpath'.
HubspotUrlRemoved ==
    (pass = 1 /\ stage = NumStages /\ clean_content = PlainHubspotLink) =>
        ~Contains(clean_text, PlainHubspotUrl)

\* 'Content-Type: text/plain\nContent-Disposition: attachment\nfoo'
AttachmentBody ==
    join(<<"\n">>, <<ScenarioLineKinds[3], ScenarioLineKinds[4], ScenarioLineKinds[5]>>)

\* C12: cleaning the body
\* 'Content-Type: text/plain\nContent-Disposition: attachment\nfoo' through
\* all nine stages gives exactly '[Attachment]\nfoo'.
AttachmentBlockCollapses ==
    (pass = 1 /\ stage = NumStages /\ clean_content = AttachmentBody) =>
        clean_text = AttachmentMarker \o <<"\n", "f", "o", "o">>

\* the call on that body has finished, and the third stage was the one that
\* wrote the marker
AttachmentBlockCollapsesWitness ==
    /\ pass = 1
    /\ stage = NumStages
    /\ clean_content = AttachmentBody
    /\ clean_text # clean_content
    /\ Contains(clean_text, AttachmentMarker)

\* the stage the claim puts at place k, applied to t
StageOutput(k, t) ==
    CASE k = 1 -> clean_tracking_urls(t)
      [] k = 2 -> clean_html_tags(t)
      [] k = 3 -> remove_attachment_metadata(t)
      [] k = 4 -> clean_markdown_artifacts(t)
      [] k = 5 -> remove_duplicate_content(t)
      [] k = 6 -> clean_boilerplate(t)
      [] k = 7 -> clean_signatures(t)
      [] k = 8 -> simplify_quoted_replies(t)
      [] k = 9 -> clean_whitespace(t)

RECURSIVE StagesUpTo(_, _)
StagesUpTo(k, t) == IF k = 0 THEN t ELSE StageOutput(k, StagesUpTo(k - 1, t))

\* a step inside one call: the next place of the order, its stage applied to
\* the text the previous stage left, the content of the call untouched
PipelineStep ==
    (pass \in {1, 2} /\ pass' = pass) =>
        /\ stage < NumStages
        /\ stage' = stage + 1
        /\ clean_text' = StageOutput(stage', clean_text)
        /\ clean_content' = clean_content

\* C17: a call of clean_email_content starts with the text equal to its
\* content and then runs the stages once each in the order tracking URLs,
\* HTML tags, attachment metadata, markdown, duplicate content, boilerplate,
\* signatures, quoted replies, whitespace; every stage gets the text the
\* previous stage returned and nothing else, so the text of a finished call
\* is the nine stages of that order applied in turn to the content.
PipelineOrder ==
    /\ []((pass \in {1, 2} /\ stage = 0) => clean_text = clean_content)
    /\ [][PipelineStep]_vars
    /\ []((pass \in {1, 2} /\ stage = NumStages) =>
              clean_text = StagesUpTo(NumStages, clean_content))

\* a finished call in which the first, third and fourth stage each changed
\* the text: the link lost its URL, then the header block became the marker,
\* then the emptied parentheses went
PipelineOrderWitness ==
    /\ pass = 1
    /\ stage = NumStages
    /\ clean_content =
           join(<<"\n">>, <<ScenarioLineKinds[3], ScenarioLineKinds[4], RegionHubspotLink>>)
    /\ clean_text = AttachmentMarker \o <<"\n">> \o SubSeq(RegionHubspotLink, 1, 12)

====
